---- MODULE Spec2Model ----
(***************************************************************************)
(* State-machine model of four programs of the repository:                 *)
(*                                                                         *)
(*  - the modal TUI of three_part_tui/src/main.rs: the Controller loop of  *)
(*    main, the input thread, the directory-watcher thread, the mpsc       *)
(*    channel between them and the watched directory (specification Spec;  *)
(*    SpecBytes: the same, any one byte typed);                            *)
(*  - ExternalizedInputBuffer (externalized_input_buffer/mod.rs): the      *)
(*    in-memory buffer and its mirror file (specification SpecEIB);        *)
(*  - ThreePartTui (three_part_tui/src/three_part_tui.rs): new, the run    *)
(*    loop around handle_char, the file-view thread and the three files of *)
(*    tui_temp (specification SpecTPT), and process_completed_input called *)
(*    on its own as its unit test does (specification SpecCmd);            *)
(*  - clean_csv (clean_csv/src/main.rs): clean_csv_file, line by line       *)
(*    (specification SpecCsv).                                              *)
(*                                                                         *)
(* Strings are sequences of byte values, a char pushed with `c as char`    *)
(* is the byte's value.  Writes to the terminal are taken to succeed;      *)
(* reads of the watched directory and writes of the mirror file fail only  *)
(* in the specifications whose initial state sets io_faults.               *)
(*                                                                         *)
(* A definition named X_Suffix right before X is a faulty variant of X:    *)
(* the properties below are also run with X replaced by it, and must fail. *)
(***************************************************************************)
EXTENDS Integers, Sequences, FiniteSets, TLC

VARIABLES
    \* ---- modal TUI: struct App and the locals of main
    mode,           \* app.mode
    input_buffer,   \* app.input_buffer
    files,          \* app.files
    last_hash,      \* app.last_hash
    force_refresh,  \* main's local force_refresh (the dirty flag)
    pc,             \* where main is: "recv", "render", "cleanup", "done", "failed"
    last_msg,       \* the result of the last rx.try_recv()
    queue,          \* the mpsc channel: messages sent and not yet received
    stdin,          \* bytes the terminal will still deliver to the input thread
    w_last_hash,    \* the watcher thread's local last_hash
    in_pc,          \* the input thread: "read" (in its loop) or "panicked"
    w_pc,           \* the watcher thread: "start", "sleep", "tick" or "panicked"
    disk,           \* the watched directory: name -> 0 (absent) or its mtime/len stamp
    mods,           \* how many times the directory was modified so far
    previous_mode,  \* main's local previous_mode: the mode before the last toggle
    screen,         \* what the terminal shows
    \* ---- the environment of both
    io_faults,      \* whether reads of the directory / writes of the file can fail
    \* ---- ExternalizedInputBuffer
    eib_buffer,     \* self.buffer
    eib_show_cursor,\* self.show_cursor
    eib_file,       \* content of the file at self.buffer_file_path
    eib_stdin,      \* bytes stdin will still deliver to handle_char
    eib_last,       \* the branch the last handle_char call took
    eib_ret,        \* what the last handle_char call returned
    \* ---- ThreePartTui (three_part_tui.rs)
    tpt_pc,         \* the main thread: "off", "new", "ready", "called", "run",
                    \* "exited" (process::exit), "failed" (run returned Err)
                    \* or "dropped" (the value went out of scope)
    tpt_temp,       \* whether the directory tui_temp exists
    tpt_stale,      \* whether tui_temp holds a file of an earlier run
    tpt_view,       \* content of tui_temp/file_view.txt
    tpt_info,       \* content of tui_temp/info_bar.txt
    tpt_lens,       \* <<last_file_view_len, last_info_bar_len, last_input_buffer_len>>
    tpt_shown,      \* what display_all printed last
    tpt_line,       \* input_line of the last process_completed_input call
    tpt_last,       \* the arm the last process_completed_input call took
    fv_pc,          \* the file-view thread: "off", "scan" or "write"
    fv_last,        \* its local last_content
    fv_cur,         \* its local current_content
    \* ---- clean_csv_file (clean_csv/src/main.rs)
    csv_input,      \* the lines of the input file
    csv_pos,        \* the index of the line `lines` yields next
    csv_out,        \* the lines written to the output file
    current_record, \* the Vec current_record
    is_first,       \* the flag is_first
    csv_pc          \* "off", "header", "lines" or "done"

tuiVars == <<mode, input_buffer, files, last_hash, force_refresh, pc, last_msg,
             queue, stdin, w_last_hash, in_pc, w_pc, disk, mods, previous_mode,
             screen>>
eibVars == <<eib_buffer, eib_show_cursor, eib_file, eib_stdin, eib_last, eib_ret>>
tptVars == <<tpt_pc, tpt_temp, tpt_stale, tpt_view, tpt_info, tpt_lens, tpt_shown,
             tpt_line, tpt_last, fv_pc, fv_last, fv_cur>>
csvVars == <<csv_input, csv_pos, csv_out, current_record, is_first, csv_pc>>
eibAndEnv == <<eibVars, io_faults, tptVars, csvVars>>
tuiAndEnv == <<tuiVars, io_faults, csvVars>>
vars == <<tuiVars, eibVars, io_faults, tptVars, csvVars>>

----------------------------------------------------------------------------
(* Bounds of the model *)

MaxKeys == 3
MaxMods == 1
MaxEibKeys == 3

----------------------------------------------------------------------------
(* Bytes and strings *)

LF == 10
CR == 13
BS == 8
DEL == 127
Key_q == 113

Str_q == <<113>>
Str_quit == <<113, 117, 105, 116>>
Str_exit == <<101, 120, 105, 116>>
Str_frog == <<102, 114, 111, 103>>
CursorMarker == <<91, 93>>

BoundedSeq(S, n) == UNION {[1..k -> S] : k \in 0..n}

Push(s, c) == Append(s, c)

Pop_First(s) == IF s = <<>> THEN s ELSE Tail(s)
Pop(s) == IF s = <<>> THEN s ELSE SubSeq(s, 1, Len(s) - 1)

----------------------------------------------------------------------------
(* The watched directory *)

(* Two entries, "a" and "b".  "b" is there; "a" is absent (0), or present    *)
(* with one of two metadata stamps (its len and mtime); or "b" has been     *)
(* renamed to "a".                                                          *)
Names == {97, 98}
Stamps == {1, 2}
AllDirs == {d \in [Names -> {0} \cup Stamps] : d[98] = 1 \/ (d[98] = 0 /\ d[97] = 1)}
InitDir == [n \in Names |-> IF n = 98 THEN 1 ELSE 0]

ReadDir(d) == {n \in Names : d[n] # 0}

IsSorted(s) == \A i, j \in 1..Len(s) : i < j => s[i] < s[j]
SortedSeq(S) == CHOOSE s \in [1..Cardinality(S) -> S] :
                    IsSorted(s) /\ {s[i] : i \in 1..Len(s)} = S

ReversedSeq(S) == CHOOSE s \in [1..Cardinality(S) -> S] :
                    /\ \A i, j \in 1..Len(s) : i < j => s[i] > s[j]
                    /\ {s[i] : i \in 1..Len(s)} = S
ScanDirectory_Descending(d) == ReversedSeq(ReadDir(d))
ScanDirectory(d) == SortedSeq(ReadDir(d))

RECURSIVE HashEntries(_, _)
HashEntries(d, S) ==
    IF S = {} THEN 0
    ELSE LET n == CHOOSE x \in S : \A y \in S : x >= y
         IN  d[n] + (Cardinality(Stamps) + 1) * HashEntries(d, S \ {n})
CalculateDirectoryHash(d) == 1 + HashEntries(d, Names)

----------------------------------------------------------------------------
(* The modal TUI: types *)

Msg(t, c) == [type |-> t, c |-> c]
NoMsg == Msg("Empty", 0)

ToggleMode_Stuck(m) == "Insert"
ToggleMode(m) == IF m = "Refresh" THEN "Insert" ELSE "Refresh"

ClassifyByte_NoQuitKey(b) ==
    IF b \in {LF, CR} THEN Msg("Enter", 0)
    ELSE IF b \in {BS, DEL} THEN Msg("Backspace", 0)
    ELSE Msg("Input", b)
ClassifyByte(b) ==
    IF b \in {LF, CR} THEN Msg("Enter", 0)
    ELSE IF b \in {BS, DEL} THEN Msg("Backspace", 0)
    ELSE IF b = Key_q THEN Msg("Quit", 0)
    ELSE Msg("Input", b)

AcceptsInput_InsertOnly(m, dirty) == m = "Insert"
AcceptsInput(m, dirty) == m = "Insert" \/ ~dirty

IsQuitCommand_WithExit(buf) == buf = Str_q \/ buf = Str_quit \/ buf = Str_exit
IsQuitCommand(buf) == buf = Str_q \/ buf = Str_quit

Frame(m, fs, buf) == [kind |-> "frame", mode |-> m, files |-> fs, prompt |-> buf]
Blank == [kind |-> "blank", mode |-> "none", files |-> <<>>, prompt |-> <<>>]

(* The directory as a later read of the same handler finds it: unchanged, or *)
(* modified in between by another process.                                   *)
DirLater(d, m) ==
    {<<d, m>>} \cup (IF m < MaxMods THEN {<<d2, m + 1>> : d2 \in AllDirs \ {d}} ELSE {})

Outcome(r, fs, lh, d, m) == [res |-> r, files |-> fs, last_hash |-> lh, disk |-> d, mods |-> m]

(* App::update_directory_list: the hash, then (if it differs) the scan. *)
UpdateDirectoryList(fs, lh, d, m, faulty) ==
    {Outcome("err", fs, lh, d, m) : x \in {y \in {1} : faulty}}
    \cup (IF CalculateDirectoryHash(d) = lh
          THEN {Outcome("same", fs, lh, d, m)}
          ELSE UNION {{Outcome("changed", ScanDirectory(l[1]), CalculateDirectoryHash(d),
                               l[1], l[2])}
                      \cup {Outcome("err", fs, lh, l[1], l[2]) : x \in {y \in {1} : faulty}}
                      : l \in DirLater(d, m)})

(* App::force_update_directory_list: the scan, then the hash. *)
ForceUpdateDirectoryList(fs, lh, d, m, faulty) ==
    {Outcome("err", fs, lh, d, m) : x \in {y \in {1} : faulty}}
    \cup UNION {{Outcome("changed", ScanDirectory(d), CalculateDirectoryHash(l[1]),
                         l[1], l[2])}
                \cup {Outcome("err", ScanDirectory(d), lh, l[1], l[2])
                          : x \in {y \in {1} : faulty}}
                : l \in DirLater(d, m)}

----------------------------------------------------------------------------
(* The modal TUI: the Controller loop of main *)

Running == pc \notin {"done", "failed"}
Received(t) == pc = "recv" /\ queue # <<>> /\ Head(queue).type = t
Take_Newest ==
    /\ queue' = SubSeq(queue, 1, Len(queue) - 1)
    /\ last_msg' = queue[Len(queue)]
Take == queue' = Tail(queue) /\ last_msg' = Head(queue)
threadVars == <<stdin, w_last_hash, in_pc, w_pc>>

(* Ok(Message::Input(c)) *)
RecvInput ==
    /\ Received("Input")
    /\ Take
    /\ IF AcceptsInput(mode, force_refresh)
       THEN /\ input_buffer' = Push(input_buffer, Head(queue).c)
            /\ force_refresh' = TRUE
       ELSE UNCHANGED <<input_buffer, force_refresh>>
    /\ pc' = "render"
    /\ UNCHANGED <<mode, files, last_hash, disk, mods, previous_mode, screen, threadVars, eibAndEnv>>

(* Ok(Message::Backspace) *)
RecvBackspace ==
    /\ Received("Backspace")
    /\ Take
    /\ input_buffer' = Pop(input_buffer)
    /\ force_refresh' = TRUE
    /\ pc' = "render"
    /\ UNCHANGED <<mode, files, last_hash, disk, mods, previous_mode, screen, threadVars, eibAndEnv>>

(* Ok(Message::Enter), the buffer empty: toggle the mode; leaving Insert, rescan *)
EnterTogglesWhen_Always(buf) == TRUE
EnterTogglesWhen(buf) == buf = <<>>

RescanAfterToggle_Never(prev, now) == FALSE
RescanAfterToggle(prev, now) == prev = "Insert" /\ now = "Refresh"

RecvEnterToggle ==
    /\ Received("Enter")
    /\ EnterTogglesWhen(input_buffer)
    /\ Take
    /\ mode' = ToggleMode(mode)
    /\ previous_mode' = mode
    /\ IF RescanAfterToggle(mode, ToggleMode(mode))
       THEN \E o \in ForceUpdateDirectoryList(files, last_hash, disk, mods, io_faults) :
               /\ files' = o.files
               /\ last_hash' = o.last_hash
               /\ disk' = o.disk
               /\ mods' = o.mods
               /\ IF o.res = "err"
                  THEN pc' = "failed" /\ UNCHANGED force_refresh
                  ELSE pc' = "render" /\ force_refresh' = TRUE
       ELSE /\ force_refresh' = TRUE
            /\ pc' = "render"
            /\ UNCHANGED <<files, last_hash, disk, mods>>
    /\ UNCHANGED <<input_buffer, screen, threadVars, eibAndEnv>>

(* Ok(Message::Enter), the buffer not empty: the command branch *)
RecvEnterCommand ==
    /\ Received("Enter")
    /\ ~EnterTogglesWhen(input_buffer)
    /\ Take
    /\ IF IsQuitCommand(input_buffer)
       THEN pc' = "cleanup" /\ UNCHANGED <<input_buffer, force_refresh>>
       ELSE /\ input_buffer' = <<>>
            /\ force_refresh' = TRUE
            /\ pc' = "render"
    /\ UNCHANGED <<mode, files, last_hash, disk, mods, previous_mode, screen, threadVars, eibAndEnv>>

(* Ok(Message::Refresh) *)
RefreshActsIn_AnyMode(m) == TRUE
RefreshActsIn(m) == m = "Refresh"

ClearsOnRefresh_Always(res) == TRUE
ClearsOnRefresh(res) == res = "changed"

RecvRefresh ==
    /\ Received("Refresh")
    /\ Take
    /\ IF RefreshActsIn(mode)
       THEN \E o \in UpdateDirectoryList(files, last_hash, disk, mods, io_faults) :
               /\ files' = o.files
               /\ last_hash' = o.last_hash
               /\ disk' = o.disk
               /\ mods' = o.mods
               /\ IF o.res = "err"
                  THEN pc' = "failed" /\ UNCHANGED <<input_buffer, force_refresh>>
                  ELSE /\ pc' = "render"
                       /\ IF ClearsOnRefresh(o.res)
                          THEN input_buffer' = <<>> /\ force_refresh' = TRUE
                          ELSE UNCHANGED <<input_buffer, force_refresh>>
       ELSE /\ pc' = "render"
            /\ UNCHANGED <<input_buffer, force_refresh, files, last_hash, disk, mods>>
    /\ UNCHANGED <<mode, previous_mode, screen, threadVars, eibAndEnv>>

(* Ok(Message::Quit) *)
AfterQuit_KeepsLooping == "render"
AfterQuit == "cleanup"

RecvQuit ==
    /\ Received("Quit")
    /\ Take
    /\ pc' = AfterQuit
    /\ UNCHANGED <<mode, input_buffer, files, last_hash, force_refresh, disk, mods,
                   previous_mode, screen, threadVars, eibAndEnv>>

(* Err(TryRecvError::Empty).  Disconnected cannot occur: main keeps tx. *)
RecvEmpty ==
    /\ pc = "recv"
    /\ queue = <<>>
    /\ last_msg' = NoMsg
    /\ pc' = "render"
    /\ UNCHANGED <<mode, input_buffer, files, last_hash, force_refresh, queue, disk, mods,
                   previous_mode, screen, threadVars, eibAndEnv>>

(* if force_refresh { app.render()?; force_refresh = false; } and the sleep *)
FlagAfterRender_Kept(dirty) == dirty
FlagAfterRender(dirty) == FALSE

Render ==
    /\ pc = "render"
    /\ screen' = IF force_refresh THEN Frame(mode, files, input_buffer) ELSE screen
    /\ force_refresh' = FlagAfterRender(force_refresh)
    /\ pc' = "recv"
    /\ UNCHANGED <<mode, input_buffer, files, last_hash, last_msg, queue, disk, mods,
                   previous_mode, threadVars, eibAndEnv>>

(* after the loop: clear the screen, flush, return Ok(()) *)
Cleanup ==
    /\ pc = "cleanup"
    /\ screen' = Blank
    /\ pc' = "done"
    /\ UNCHANGED <<mode, input_buffer, files, last_hash, force_refresh, last_msg, queue,
                   disk, mods, previous_mode, threadVars, eibAndEnv>>

----------------------------------------------------------------------------
(* The modal TUI: the input thread, the watcher thread, the directory *)

ctlVars == <<mode, input_buffer, files, last_hash, force_refresh, pc, last_msg,
             previous_mode, screen>>

(* tx.send(m).unwrap_or(()): the message is queued while main holds the     *)
(* receiver; once main has returned the receiver is dropped, send returns   *)
(* Err and the error is discarded                                           *)
Send(m) == IF Running THEN Append(queue, m) ELSE queue

SendErrorIs_Unwrapped == "panic"
SendErrorIs == "ignored"

AfterSend(next) == IF Running \/ SendErrorIs = "ignored" THEN next ELSE "panicked"

(* one iteration of the input thread, stdin.read_exact succeeded: classify  *)
(* the byte, send, sleep 10 ms                                              *)
InputRead ==
    /\ in_pc = "read"
    /\ stdin # <<>>
    /\ queue' = Send(ClassifyByte(Head(stdin)))
    /\ stdin' = Tail(stdin)
    /\ in_pc' = AfterSend("read")
    /\ UNCHANGED <<ctlVars, w_last_hash, w_pc, disk, mods, eibAndEnv>>

(* one iteration of the input thread, stdin.read_exact failed (end of       *)
(* input): is_ok() is false, nothing is sent, sleep 10 ms                   *)
ReadErrorIs_Unwrapped == "panic"
ReadErrorIs == "skipped"

InputReadFails ==
    /\ in_pc = "read"
    /\ stdin = <<>>
    /\ in_pc' = IF ReadErrorIs = "skipped" THEN "read" ELSE "panicked"
    /\ UNCHANGED <<ctlVars, queue, stdin, w_last_hash, w_pc, disk, mods, eibAndEnv>>

(* thread::sleep(Duration::from_millis(500)) of the watcher is over: the    *)
(* first one ("start") or the one after a tick ("sleep")                    *)
WatcherWake ==
    /\ w_pc \in {"start", "sleep"}
    /\ w_pc' = "tick"
    /\ UNCHANGED <<ctlVars, queue, stdin, w_last_hash, in_pc, disk, mods, eibAndEnv>>

(* a tick of the watcher: the hash differs from the last one this thread saw *)
WatcherSendsWhen_Always(h, last) == TRUE
WatcherSendsWhen(h, last) == h # last

WatcherChanged ==
    /\ w_pc = "tick"
    /\ WatcherSendsWhen(CalculateDirectoryHash(disk), w_last_hash)
    /\ w_last_hash' = CalculateDirectoryHash(disk)
    /\ queue' = Send(Msg("Refresh", 0))
    /\ w_pc' = AfterSend("sleep")
    /\ UNCHANGED <<ctlVars, stdin, in_pc, disk, mods, eibAndEnv>>

(* a tick of the watcher: the same hash, or calculate_directory_hash failed *)
(* (`if let Ok(..)` skips the tick)                                         *)
HashErrorIs_Unwrapped == "panic"
HashErrorIs == "skipped"

WatcherIdle ==
    /\ w_pc = "tick"
    /\ \E failed \in (IF io_faults THEN BOOLEAN ELSE {FALSE}) :
          /\ failed \/ ~WatcherSendsWhen(CalculateDirectoryHash(disk), w_last_hash)
          /\ w_pc' = IF failed /\ HashErrorIs # "skipped" THEN "panicked" ELSE "sleep"
    /\ UNCHANGED <<ctlVars, queue, stdin, w_last_hash, in_pc, disk, mods, eibAndEnv>>

(* another process modifies the watched directory, while the program runs *)
DirModified ==
    /\ Running \/ tpt_pc \in {"ready", "called", "run"}
    /\ \E l \in DirLater(disk, mods) \ {<<disk, mods>>} :
          disk' = l[1] /\ mods' = l[2]
    /\ UNCHANGED <<ctlVars, queue, threadVars, eibAndEnv>>

----------------------------------------------------------------------------
(* The modal TUI: the specification *)

TypedBytes == {LF, DEL, 120}
Scripts == BoundedSeq(TypedBytes, MaxKeys)
             \cup {Str_exit \o <<LF>>, <<CR>>, <<BS>>, <<Key_q>>, <<Key_q, 120>>,
                   <<120, Key_q, LF>>, <<LF, Key_q, 120>>, <<Key_q, 117, LF>>,
                   <<101, 120, DEL>>}

EibIdle ==
    /\ eib_buffer = <<>>
    /\ eib_show_cursor = FALSE
    /\ eib_file = <<>>
    /\ eib_stdin = <<>>
    /\ eib_last = "none"
    /\ eib_ret = "none"

CsvIdle ==
    /\ csv_input = <<>>
    /\ csv_pos = 1
    /\ csv_out = <<>>
    /\ current_record = <<>>
    /\ is_first = TRUE
    /\ csv_pc = "off"

NothingShown == [view |-> <<>>, info |-> <<>>, input |-> <<>>]

TptIdle ==
    /\ tpt_pc = "off"
    /\ tpt_temp = FALSE
    /\ tpt_stale = FALSE
    /\ tpt_view = <<>>
    /\ tpt_info = <<>>
    /\ tpt_lens = <<0, 0, 0>>
    /\ tpt_shown = NothingShown
    /\ tpt_line = <<>>
    /\ tpt_last = "none"
    /\ fv_pc = "off"
    /\ fv_last = <<>>
    /\ fv_cur = <<>>

(* App::new, the spawn of the two threads and the initial render; the user *)
(* is going to type one of the byte sequences of S                          *)
TuiStart(S) ==
    /\ mode = "Refresh"
    /\ input_buffer = <<>>
    /\ files = ScanDirectory(InitDir)
    /\ \E l \in DirLater(InitDir, 0) :
          /\ disk = l[1]
          /\ mods = l[2]
          /\ last_hash = CalculateDirectoryHash(l[1])
    /\ force_refresh = FALSE
    /\ pc = "recv"
    /\ last_msg = NoMsg
    /\ queue = <<>>
    /\ stdin \in S
    /\ w_last_hash = 0
    /\ in_pc = "read"
    /\ w_pc = "start"
    /\ previous_mode = "none"
    /\ screen = Frame("Refresh", ScanDirectory(InitDir), <<>>)

TuiInit == TuiStart(Scripts)

Init == TuiInit /\ EibIdle /\ TptIdle /\ io_faults = FALSE /\ CsvIdle
InitFaults == TuiInit /\ EibIdle /\ TptIdle /\ io_faults = TRUE /\ CsvIdle

Next ==
    \/ RecvInput
    \/ RecvBackspace
    \/ RecvEnterToggle
    \/ RecvEnterCommand
    \/ RecvRefresh
    \/ RecvQuit
    \/ RecvEmpty
    \/ Render
    \/ Cleanup
    \/ InputRead
    \/ InputReadFails
    \/ WatcherWake
    \/ WatcherChanged
    \/ WatcherIdle
    \/ DirModified

Spec == Init /\ [][Next]_vars
SpecFaults == InitFaults /\ [][Next]_vars

(* The same program, the user typing any one byte (a u8), or x and Enter *)
Bytes == 0 .. 255
ByteScripts == {<<b>> : b \in Bytes} \cup {<<120, LF>>}
InitBytes == TuiStart(ByteScripts) /\ EibIdle /\ TptIdle /\ io_faults = FALSE /\ CsvIdle
SpecBytes == InitBytes /\ [][Next]_vars

----------------------------------------------------------------------------
(* ExternalizedInputBuffer *)

IsAsciiGraphic_NotControl(b) == 33 <= b
IsAsciiGraphic(b) == 33 <= b /\ b <= 126

(* write_to_file: the content handed to fs::write *)
FileContent_NoCursor(buf, cursor) == buf
FileContent(buf, cursor) == IF cursor THEN buf \o CursorMarker ELSE buf

(* fs::write(path, content): the file holds content, or the call failed and  *)
(* the file is as it was (not opened) or holds a proper prefix of content    *)
(* (truncated, then written in part).                                        *)
FsWrite(old, content, faulty) ==
    {[ok |-> TRUE, file |-> content]}
    \cup {[ok |-> FALSE, file |-> old] : x \in {y \in {1} : faulty}}
    \cup {[ok |-> FALSE, file |-> SubSeq(content, 1, k)]
             : k \in {j \in 0..(Len(content) - 1) : faulty}}

----------------------------------------------------------------------------
(* ThreePartTui: the command handler, and the rest of a run-loop iteration *)

(* the texts of three_part_tui.rs, as bytes *)
Str_clear == <<99, 108, 101, 97, 114>>
Str_help == <<104, 101, 108, 112>>
\* "Processing command: "
Str_processing ==
    <<80, 114, 111, 99, 101, 115, 115, 105, 110, 103, 32, 99, 111, 109,
      109, 97, 110, 100, 58, 32>>
\* "Exiting program..."
Str_exiting ==
    <<69, 120, 105, 116, 105, 110, 103, 32, 112, 114, 111, 103, 114, 97,
      109, 46, 46, 46>>
\* "Cleared file view"
Str_cleared ==
    <<67, 108, 101, 97, 114, 101, 100, 32, 102, 105, 108, 101, 32, 118,
      105, 101, 119>>
\* "Ready for input"
Str_ready ==
    <<82, 101, 97, 100, 121, 32, 102, 111, 114, 32, 105, 110, 112, 117,
      116>>
\* "Unrecognized command: '"
Str_unrecognized ==
    <<85, 110, 114, 101, 99, 111, 103, 110, 105, 122, 101, 100, 32, 99,
      111, 109, 109, 97, 110, 100, 58, 32, 39>>
\* "'. Type 'help' for available commands."
Str_type_help ==
    <<39, 46, 32, 84, 121, 112, 101, 32, 39, 104, 101, 108, 112, 39, 32,
      102, 111, 114, 32, 97, 118, 97, 105, 108, 97, 98, 108, 101, 32, 99,
      111, 109, 109, 97, 110, 100, 115, 46>>
\* "TUI Started - Ready for Input"
Str_started ==
    <<84, 85, 73, 32, 83, 116, 97, 114, 116, 101, 100, 32, 45, 32, 82, 101,
      97, 100, 121, 32, 102, 111, 114, 32, 73, 110, 112, 117, 116>>
\* "Input error: " (the text of the io::Error that follows is left out)
Str_input_error ==
    <<73, 110, 112, 117, 116, 32, 101, 114, 114, 111, 114, 58, 32>>
\* the six lines of generate_help_text joined with "\n":
\* "Available Commands:", "- exit/quit : Exit the program",
\* "- clear    : Clear the file view", "- help     : Show this help message",
\* "", "Press Enter after typing command"
GenerateHelpText ==
    <<65, 118, 97, 105, 108, 97, 98, 108, 101, 32, 67, 111, 109, 109, 97,
      110, 100, 115, 58, 10, 45, 32, 101, 120, 105, 116, 47, 113, 117, 105,
      116, 32, 58, 32, 69, 120, 105, 116, 32, 116, 104, 101, 32, 112, 114,
      111, 103, 114, 97, 109, 10, 45, 32, 99, 108, 101, 97, 114, 32, 32,
      32, 32, 58, 32, 67, 108, 101, 97, 114, 32, 116, 104, 101, 32, 102,
      105, 108, 101, 32, 118, 105, 101, 119, 10, 45, 32, 104, 101, 108,
      112, 32, 32, 32, 32, 32, 58, 32, 83, 104, 111, 119, 32, 116, 104,
      105, 115, 32, 104, 101, 108, 112, 32, 109, 101, 115, 115, 97, 103,
      101, 10, 10, 80, 114, 101, 115, 115, 32, 69, 110, 116, 101, 114, 32,
      97, 102, 116, 101, 114, 32, 116, 121, 112, 105, 110, 103, 32, 99,
      111, 109, 109, 97, 110, 100>>

IsWhitespace(b) == b \in {9, 10, 11, 12, 13, 32}

RECURSIVE TrimStart(_)
TrimStart(s) == IF s # <<>> /\ IsWhitespace(Head(s)) THEN TrimStart(Tail(s)) ELSE s

RECURSIVE TrimEnd(_)
TrimEnd(s) ==
    IF s # <<>> /\ IsWhitespace(s[Len(s)]) THEN TrimEnd(SubSeq(s, 1, Len(s) - 1)) ELSE s

Trim(s) == TrimEnd(TrimStart(s))
ToLowercase(s) == [i \in 1 .. Len(s) |-> IF 65 <= s[i] /\ s[i] <= 90 THEN s[i] + 32 ELSE s[i]]

(* input_line.trim().to_lowercase() *)
CleanInput_Raw(line) == line
CleanInput(line) == ToLowercase(Trim(line))

(* the outcome of a call: what it returned ("Ok", "Err", or "exit" when it  *)
(* ended the process), the two files it may write, the arm it reached       *)
CallOutcome(r, view, info, arm) == [ret |-> r, view |-> view, info |-> info, arm |-> arm]

(* self.update_info_bar_status(msg)? as the last write of an arm *)
InfoThen(r, view, info, msg, arm, faulty) ==
    {CallOutcome(IF w.ok THEN r ELSE "Err", view, w.file, arm)
        : w \in FsWrite(info, msg \o <<LF>>, faulty)}

(* the match on cleaned_input *)
CommandArm(cleaned, view, info, faulty) ==
    IF cleaned \in {Str_exit, Str_quit}
    THEN InfoThen("exit", view, info, Str_exiting, "exit", faulty)
    ELSE IF cleaned = Str_clear
    THEN UNION {IF v.ok
                THEN InfoThen("Ok", v.file, info, Str_cleared, "clear", faulty)
                ELSE {CallOutcome("Err", v.file, info, "clear")}
                   : v \in FsWrite(view, <<>>, faulty)}
    ELSE IF cleaned = Str_help
    THEN InfoThen("Ok", view, info, GenerateHelpText, "help", faulty)
    ELSE IF cleaned = <<>>
    THEN InfoThen("Ok", view, info, Str_ready, "empty", faulty)
    ELSE InfoThen("Ok", view, info, Str_unrecognized \o cleaned \o Str_type_help,
                  "unknown", faulty)

(* process_completed_input(input_line) *)
ProcessCompletedInput(line, view, info, faulty) ==
    UNION {IF w.ok
           THEN CommandArm(CleanInput(line), view, w.file, faulty)
           ELSE {CallOutcome("Err", view, w.file, "log")}
              : w \in FsWrite(info, Str_processing \o CleanInput(line) \o <<LF>>, faulty)}

(* The rest of the iteration of run's loop, handle_char having returned:    *)
(* the match on its result (Ok(true): the handler is passed get_buffer(),    *)
(* the buffer as handle_char left it), then needs_refresh and display_all.  *)
(* In the other callers of handle_char there is no ThreePartTui.            *)
AfterHandleChar ==
    IF tpt_pc = "off"
    THEN UNCHANGED tptVars
    ELSE /\ \E d \in (IF eib_ret' = "Ok_true"
                      THEN ProcessCompletedInput(eib_buffer', tpt_view, tpt_info, io_faults)
                      ELSE IF eib_ret' = "Ok_false"
                      THEN {CallOutcome("Ok", tpt_view, tpt_info, tpt_last)}
                      ELSE InfoThen("Ok", tpt_view, tpt_info, Str_input_error,
                                    tpt_last, io_faults)) :
               /\ tpt_view' = d.view
               /\ tpt_info' = d.info
               /\ tpt_last' = d.arm
               /\ IF d.ret = "exit"
                  THEN /\ tpt_pc' = "exited"
                       /\ UNCHANGED <<tpt_temp, tpt_lens, tpt_shown>>
                  ELSE IF d.ret = "Err"
                  THEN /\ tpt_pc' = "failed"
                       /\ tpt_temp' \in (IF io_faults THEN BOOLEAN ELSE {FALSE})
                       /\ UNCHANGED <<tpt_lens, tpt_shown>>
                  ELSE /\ tpt_pc' = "run"
                       /\ tpt_lens' = <<Len(d.view), Len(d.info), Len(eib_file')>>
                       /\ tpt_shown' =
                            IF tpt_lens' # tpt_lens
                            THEN [view |-> d.view, info |-> d.info, input |-> eib_file']
                            ELSE tpt_shown
                       /\ UNCHANGED tpt_temp
         /\ tpt_line' = IF eib_ret' = "Ok_true" THEN eib_buffer' ELSE tpt_line
         /\ UNCHANGED <<tpt_stale, fv_pc, fv_last, fv_cur>>

----------------------------------------------------------------------------
(* ExternalizedInputBuffer: handle_char *)

\* "old": what a file left by an earlier run holds
Str_old == <<111, 108, 100>>

(* self.write_to_file()?; Ok(ret): the error of the write is the call's result *)
WriteResult_Swallowed(ok, ret) == ret
WriteResult(ok, ret) == IF ok THEN ret ELSE "Err"

(* the caller goes on calling: main's loop of externalized_input_buffer     *)
(* until a call returns Err, run's loop of ThreePartTui while it runs       *)
EibCallable == IF tpt_pc = "off" THEN eib_ret # "Err" ELSE tpt_pc = "run"
EibCalling == EibCallable /\ eib_stdin # <<>>

(* the rest of a branch that has set the buffer to buf: write_to_file()?, Ok(ret) *)
EibWriteBack(buf, branch, ret) ==
    /\ eib_buffer' = buf
    /\ eib_stdin' = Tail(eib_stdin)
    /\ eib_last' = branch
    /\ \E w \in FsWrite(eib_file, FileContent(buf, eib_show_cursor), io_faults) :
          /\ eib_file' = w.file
          /\ eib_ret' = WriteResult(w.ok, ret)
    /\ AfterHandleChar
    /\ UNCHANGED <<eib_show_cursor, tuiAndEnv>>

(* 13 | 10: self.buffer.clear() *)
BufferAfterEnter_Kept(buf) == buf
BufferAfterEnter(buf) == <<>>

EibEnter ==
    /\ EibCalling
    /\ Head(eib_stdin) \in {CR, LF}
    /\ EibWriteBack(BufferAfterEnter(eib_buffer), "enter", "Ok_true")

(* 127 | 8 *)
EibBackspace ==
    /\ EibCalling
    /\ Head(eib_stdin) \in {DEL, BS}
    /\ EibWriteBack(Pop(eib_buffer), "backspace", "Ok_false")

(* c if c.is_ascii_graphic() || c == b' ' *)
EibAppend ==
    /\ EibCalling
    /\ Head(eib_stdin) \notin {CR, LF, DEL, BS}
    /\ IsAsciiGraphic(Head(eib_stdin)) \/ Head(eib_stdin) = 32
    /\ EibWriteBack(Push(eib_buffer, Head(eib_stdin)), "append", "Ok_false")

(* _ => Ok(false) *)
EibIgnore ==
    /\ EibCalling
    /\ Head(eib_stdin) \notin {CR, LF, DEL, BS}
    /\ ~(IsAsciiGraphic(Head(eib_stdin)) \/ Head(eib_stdin) = 32)
    /\ eib_stdin' = Tail(eib_stdin)
    /\ eib_last' = "ignored"
    /\ eib_ret' = "Ok_false"
    /\ eib_buffer' = eib_buffer
    /\ eib_file' = eib_file
    /\ AfterHandleChar
    /\ UNCHANGED <<eib_show_cursor, tuiAndEnv>>

(* read_exact failed (end of input): Ok(false) *)
EibReadFails ==
    /\ EibCallable
    /\ eib_stdin = <<>>
    /\ eib_last' = "noread"
    /\ eib_ret' = "Ok_false"
    /\ eib_buffer' = eib_buffer
    /\ eib_file' = eib_file
    /\ AfterHandleChar
    /\ UNCHANGED <<eib_show_cursor, eib_stdin, tuiAndEnv>>

EibBytes == {LF, DEL, 97, 32, 27}
EibScripts == BoundedSeq(EibBytes, MaxEibKeys)
                \cup {Str_frog \o <<DEL>>, <<CR>>, <<BS>>, <<103, 0, 200, 126, BS>>}
                \cup {<<97, b>> : b \in Bytes}

TuiIdle ==
    /\ mode = "Refresh"
    /\ input_buffer = <<>>
    /\ disk = InitDir
    /\ mods = 0
    /\ files = <<>>
    /\ last_hash = 0
    /\ force_refresh = FALSE
    /\ pc = "done"
    /\ last_msg = NoMsg
    /\ queue = <<>>
    /\ stdin = <<>>
    /\ w_last_hash = 0
    /\ in_pc = "none"
    /\ w_pc = "none"
    /\ previous_mode = "none"
    /\ screen = Blank

(* ExternalizedInputBuffer::new(path, show_cursor) returned Ok *)
(* ExternalizedInputBuffer::new: fs::write(&buffer_file_path, "")?, over a   *)
(* file that is absent or left by an earlier run; Err when the write fails  *)
EibNew(faulty) ==
    /\ eib_buffer = <<>>
    /\ eib_show_cursor \in BOOLEAN
    /\ eib_stdin \in EibScripts
    /\ eib_last = "none"
    /\ \E old \in {<<>>, Str_old} : \E w \in FsWrite(old, <<>>, faulty) :
          /\ eib_file = w.file
          /\ eib_ret = WriteResult(w.ok, "none")

EibInit == EibNew(FALSE)

InitEIB == EibInit /\ TuiIdle /\ TptIdle /\ io_faults = FALSE /\ CsvIdle
InitEIBFaults == EibNew(TRUE) /\ TuiIdle /\ TptIdle /\ io_faults = TRUE /\ CsvIdle

NextEIB ==
    \/ EibEnter
    \/ EibBackspace
    \/ EibAppend
    \/ EibIgnore
    \/ EibReadFails

SpecEIB == InitEIB /\ [][NextEIB]_vars
SpecEIBFaults == InitEIBFaults /\ [][NextEIB]_vars

----------------------------------------------------------------------------
(* ThreePartTui: new, run, the file-view thread, Drop *)

\* "Error reading directory: " (the text of the io::Error is left out)
Str_error_reading ==
    <<69, 114, 114, 111, 114, 32, 114, 101, 97, 100, 105, 110, 103, 32,
      100, 105, 114, 101, 99, 116, 111, 114, 121, 58, 32>>

(* The names fs::read_dir(".") yields, each followed by "\n": the entries   *)
(* of the directory by name, then tui_temp itself ("t"), which is created   *)
(* in the same directory.                                                   *)
ListingText(d, temp) ==
    LET fs == ScanDirectory(d)
    IN  [i \in 1 .. 2 * Len(fs) |-> IF i % 2 = 1 THEN fs[(i + 1) \div 2] ELSE LF]
          \o (IF temp THEN <<116, LF>> ELSE <<>>)

(* Before ThreePartTui::new: tui_temp is absent, or left behind by an       *)
(* earlier run with its three files and one more; the user is going to      *)
(* type one of the byte sequences of S.                                     *)
TptStart(S) ==
    /\ tpt_pc = "new"
    /\ tpt_temp \in BOOLEAN
    /\ tpt_stale = tpt_temp
    /\ tpt_view = (IF tpt_temp THEN Str_old ELSE <<>>)
    /\ tpt_info = (IF tpt_temp THEN Str_old ELSE <<>>)
    /\ eib_file = (IF tpt_temp THEN Str_old ELSE <<>>)
    /\ tpt_lens = <<0, 0, 0>>
    /\ tpt_shown = NothingShown
    /\ tpt_line = <<>>
    /\ tpt_last = "none"
    /\ fv_pc = "off"
    /\ fv_last = <<>>
    /\ fv_cur = <<>>
    /\ eib_buffer = <<>>
    /\ eib_show_cursor = TRUE
    /\ eib_stdin \in S
    /\ eib_last = "none"
    /\ eib_ret = "none"

(* ThreePartTui::new *)
TptNew ==
    /\ tpt_pc = "new"
    /\ \E ok \in (IF io_faults THEN BOOLEAN ELSE {TRUE}) :
          IF ok
          THEN /\ tpt_temp' = TRUE
               /\ tpt_stale' = FALSE
               /\ tpt_view' = <<>>
               /\ tpt_info' = <<>>
               /\ eib_file' = <<>>
               /\ tpt_lens' = <<0, 0, 0>>
               /\ tpt_pc' = "ready"
          ELSE /\ tpt_pc' = "failed"
               /\ UNCHANGED <<tpt_temp, tpt_stale, tpt_view, tpt_info, eib_file, tpt_lens>>
    /\ UNCHANGED <<tpt_shown, tpt_line, tpt_last, fv_pc, fv_last, fv_cur, eib_buffer,
                   eib_show_cursor, eib_stdin, eib_last, eib_ret, tuiAndEnv>>

(* impl Drop: fs::remove_dir_all(&self.temp_dir), an error only reported *)
Dropped == IF io_faults THEN BOOLEAN ELSE {FALSE}

(* run, up to its loop: spawn the file-view thread, write the first status *)
TptRun ==
    /\ tpt_pc = "ready"
    /\ fv_pc' = "scan"
    /\ fv_last' = <<>>
    /\ \E w \in FsWrite(tpt_info, Str_started \o <<LF>>, io_faults) :
          /\ tpt_info' = w.file
          /\ IF w.ok
             THEN tpt_pc' = "run" /\ UNCHANGED tpt_temp
             ELSE tpt_pc' = "failed" /\ tpt_temp' \in Dropped
    /\ UNCHANGED <<tpt_stale, tpt_view, tpt_lens, tpt_shown, tpt_line, tpt_last, fv_cur,
                   eibVars, tuiAndEnv>>

(* The file-view thread, the first half of an iteration: read the           *)
(* directory; if the text differs from last_content, File::create           *)
(* truncates file_view.txt (or fails: the text is only remembered);         *)
(* otherwise sleep.                                                         *)
FvScan ==
    /\ tpt_pc = "run"
    /\ fv_pc = "scan"
    /\ \E cur \in {ListingText(disk, tpt_temp)}
                     \cup (IF io_faults THEN {Str_error_reading} ELSE {}) :
          IF cur = fv_last
          THEN UNCHANGED <<tpt_view, fv_pc, fv_last, fv_cur>>
          ELSE \E created \in (IF io_faults THEN BOOLEAN ELSE {TRUE}) :
                  IF created
                  THEN /\ tpt_view' = <<>>
                       /\ fv_cur' = cur
                       /\ fv_pc' = "write"
                       /\ UNCHANGED fv_last
                  ELSE /\ fv_last' = cur
                       /\ UNCHANGED <<tpt_view, fv_pc, fv_cur>>
    /\ UNCHANGED <<tpt_pc, tpt_temp, tpt_stale, tpt_info, tpt_lens, tpt_shown, tpt_line,
                   tpt_last, eibVars, tuiAndEnv>>

(* the second half: write_all(current_content), last_content = current_content *)
FvWrite ==
    /\ tpt_pc = "run"
    /\ fv_pc = "write"
    /\ \E w \in FsWrite(tpt_view, fv_cur, io_faults) : tpt_view' = w.file
    /\ fv_last' = fv_cur
    /\ fv_pc' = "scan"
    /\ UNCHANGED <<tpt_pc, tpt_temp, tpt_stale, tpt_info, tpt_lens, tpt_shown, tpt_line,
                   tpt_last, fv_cur, eibVars, tuiAndEnv>>

(* what the user may type at the prompt *)
TptScripts ==
    BoundedSeq({LF, DEL, 97}, MaxEibKeys)
      \cup {Str_exit \o <<LF>>, Str_quit \o <<CR>>, Str_help \o <<LF>>, Str_clear \o <<LF>>,
             <<120, LF>>, <<27, 120, LF>>}

InitTPT == TptStart(TptScripts) /\ TuiIdle /\ io_faults = FALSE /\ CsvIdle
InitTPTFaults == TptStart(TptScripts) /\ TuiIdle /\ io_faults = TRUE /\ CsvIdle

NextTPT ==
    \/ TptNew
    \/ TptRun
    \/ EibEnter
    \/ EibBackspace
    \/ EibAppend
    \/ EibIgnore
    \/ EibReadFails
    \/ FvScan
    \/ FvWrite
    \/ DirModified

SpecTPT == InitTPT /\ [][NextTPT]_vars
SpecTPTFaults == InitTPTFaults /\ [][NextTPT]_vars

----------------------------------------------------------------------------
(* ThreePartTui: process_completed_input called on its own, as the test     *)
(* test_process_completed_input does                                        *)

\* "help", " HELP ", "Help" and a line feed
HelpLines == {Str_help, <<32, 72, 69, 76, 80, 32>>, <<72, 101, 108, 112, 10>>}
\* "clear", a tab and "CLEAR"
ClearLines == {Str_clear, <<9, 67, 76, 69, 65, 82>>}
\* "exit", "quit", "QUIT" and a space
QuitLines == {Str_exit, Str_quit, <<81, 85, 73, 84, 32>>}
\* "", two spaces
EmptyLines == {<<>>, <<32, 32>>}
\* "invalid_command", "helpx", "ex it", "x"
OtherLines ==
    {<<105, 110, 118, 97, 108, 105, 100, 95, 99, 111, 109, 109, 97, 110, 100>>,
      <<104, 101, 108, 112, 120>>, <<101, 120, 32, 105, 116>>, <<120>>}
CmdLines == HelpLines \cup ClearLines \cup QuitLines \cup EmptyLines \cup OtherLines

(* tui.process_completed_input(line): back in the caller ("called"), or the *)
(* process has exited, or the call returned Err and the caller gives up     *)
CmdCall ==
    /\ tpt_pc = "ready"
    /\ \E line \in CmdLines :
          \E d \in ProcessCompletedInput(line, tpt_view, tpt_info, io_faults) :
             /\ tpt_line' = line
             /\ tpt_last' = d.arm
             /\ tpt_view' = d.view
             /\ tpt_info' = d.info
             /\ IF d.ret = "exit"
                THEN tpt_pc' = "exited" /\ UNCHANGED tpt_temp
                ELSE IF d.ret = "Err"
                THEN tpt_pc' = "failed" /\ tpt_temp' \in Dropped
                ELSE tpt_pc' = "called" /\ UNCHANGED tpt_temp
    /\ UNCHANGED <<tpt_stale, tpt_lens, tpt_shown, fv_pc, fv_last, fv_cur, eibVars, tuiAndEnv>>

(* the caller has read the files and goes on *)
CmdReturn ==
    /\ tpt_pc = "called"
    /\ tpt_pc' = "ready"
    /\ UNCHANGED <<tpt_temp, tpt_stale, tpt_view, tpt_info, tpt_lens, tpt_shown, tpt_line,
                   tpt_last, fv_pc, fv_last, fv_cur, eibVars, tuiAndEnv>>

(* update_file_view: File::create, then a line per entry of read_dir(".") *)
CmdUpdateFileView ==
    /\ tpt_pc = "ready"
    /\ tpt_view' = ListingText(disk, tpt_temp)
    /\ UNCHANGED <<tpt_pc, tpt_temp, tpt_stale, tpt_info, tpt_lens, tpt_shown, tpt_line,
                   tpt_last, fv_pc, fv_last, fv_cur, eibVars, tuiAndEnv>>

(* the ThreePartTui value goes out of scope: Drop *)
CmdDrop ==
    /\ tpt_pc = "ready"
    /\ tpt_pc' = "dropped"
    /\ tpt_temp' \in Dropped
    /\ UNCHANGED <<tpt_stale, tpt_view, tpt_info, tpt_lens, tpt_shown, tpt_line,
                   tpt_last, fv_pc, fv_last, fv_cur, eibVars, tuiAndEnv>>

InitCmd == TptStart({<<>>}) /\ TuiIdle /\ io_faults = FALSE /\ CsvIdle

NextCmd ==
    \/ TptNew
    \/ CmdCall
    \/ CmdReturn
    \/ CmdUpdateFileView
    \/ CmdDrop
    \/ DirModified

SpecCmd == InitCmd /\ [][NextCmd]_vars

----------------------------------------------------------------------------
(* clean_csv: clean_csv_file.  Files are sequences of lines (BufRead::lines *)
(* strips the line ends, writeln! adds one), a line a sequence of bytes.    *)

MaxCsvLines == 3
Comma == 44
Space == 32
\* u32::MAX, 4294967295, in decimal digits
U32MaxDigits == <<52, 50, 57, 52, 57, 54, 55, 50, 57, 53>>
Digits == 48 .. 57

(* line.split(',').next(): the text before the first comma *)
FirstField(line) ==
    LET commas == {i \in 1 .. Len(line) : line[i] = Comma}
        end == IF commas = {} THEN Len(line)
               ELSE (CHOOSE i \in commas : \A j \in commas : i <= j) - 1
    IN  SubSeq(line, 1, end)

RECURSIVE StripZeros(_)
StripZeros(s) == IF s # <<>> /\ s[1] = 48 THEN StripZeros(Tail(s)) ELSE s

(* the digits ds, without leading zeros, denote a value within u32 *)
FitsU32(ds) ==
    \/ Len(ds) < Len(U32MaxDigits)
    \/ /\ Len(ds) = Len(U32MaxDigits)
       /\ \/ ds = U32MaxDigits
          \/ \E i \in 1 .. Len(ds) :
                /\ ds[i] < U32MaxDigits[i]
                /\ \A j \in 1 .. i - 1 : ds[j] = U32MaxDigits[j]

(* s.parse::<u32>().ok(): an optional '+', then one or more digits, the     *)
(* value within u32                                                         *)
ParsesAsU32(s) ==
    LET body == IF s # <<>> /\ s[1] = 43 THEN Tail(s) ELSE s
    IN  /\ body # <<>>
        /\ \A i \in 1 .. Len(body) : body[i] \in Digits
        /\ FitsU32(StripZeros(body))

IsNewRecord(line) == ParsesAsU32(FirstField(line))

(* current_record.join(" ") *)
RECURSIVE Join(_)
Join(ls) ==
    IF ls = <<>> THEN <<>>
    ELSE IF Len(ls) = 1 THEN ls[1]
    ELSE ls[1] \o <<Space>> \o Join(Tail(ls))

csvOthers == <<tuiVars, eibVars, io_faults, tptVars>>

(* if let Some(Ok(header)) = lines.next() { writeln!(writer, "{}", header)?; } *)
CsvHeader ==
    /\ csv_pc = "header"
    /\ IF csv_input # <<>>
       THEN csv_out' = <<csv_input[1]>> /\ csv_pos' = 2
       ELSE csv_out' = <<>> /\ csv_pos' = 1
    /\ csv_pc' = "lines"
    /\ UNCHANGED <<csv_input, current_record, is_first, csvOthers>>

(* a line of the loop with is_new_record *)
CsvNewRecord ==
    /\ csv_pc = "lines"
    /\ csv_pos <= Len(csv_input)
    /\ IsNewRecord(csv_input[csv_pos])
    /\ IF current_record # <<>>
       THEN /\ csv_out' = IF ~is_first THEN Append(csv_out, Join(current_record))
                          ELSE csv_out
            /\ is_first' = FALSE
       ELSE UNCHANGED <<csv_out, is_first>>
    /\ current_record' = <<csv_input[csv_pos]>>
    /\ csv_pos' = csv_pos + 1
    /\ UNCHANGED <<csv_input, csv_pc, csvOthers>>

(* a line of the loop without: a continuation line *)
CsvContinuation ==
    /\ csv_pc = "lines"
    /\ csv_pos <= Len(csv_input)
    /\ ~IsNewRecord(csv_input[csv_pos])
    /\ current_record' = IF current_record # <<>>
                         THEN Append(current_record, csv_input[csv_pos])
                         ELSE current_record
    /\ csv_pos' = csv_pos + 1
    /\ UNCHANGED <<csv_input, csv_out, is_first, csv_pc, csvOthers>>

(* after the loop: the final record, Ok(()) *)
CsvFinal ==
    /\ csv_pc = "lines"
    /\ csv_pos > Len(csv_input)
    /\ csv_out' = IF current_record # <<>> THEN Append(csv_out, Join(current_record))
                  ELSE csv_out
    /\ csv_pc' = "done"
    /\ UNCHANGED <<csv_input, csv_pos, current_record, is_first, csvOthers>>

\* "id" and "0": header lines; "1,x", "2", "+7": lines that start a record;
\* "x,1", "", "-1": lines that do not
CsvHeaders == {<<105, 100>>, <<48>>}
CsvLines == {<<49, Comma, 120>>, <<50>>, <<43, 55>>, <<120, Comma, 49>>, <<>>, <<45, 49>>}
CsvInputs == {<<>>} \cup {<<h>> \o b : h \in CsvHeaders, b \in BoundedSeq(CsvLines, MaxCsvLines)}

InitCsv ==
    /\ csv_input \in CsvInputs
    /\ csv_pos = 1
    /\ csv_out = <<>>
    /\ current_record = <<>>
    /\ is_first = TRUE
    /\ csv_pc = "header"
    /\ TuiIdle /\ EibIdle /\ TptIdle /\ io_faults = FALSE

NextCsv ==
    \/ CsvHeader
    \/ CsvNewRecord
    \/ CsvContinuation
    \/ CsvFinal

SpecCsv == InitCsv /\ [][NextCsv]_vars

----------------------------------------------------------------------------
(* Claims.  A step of the Controller that processes a message of type t is  *)
(* one taken at the poll with such a message at the head of the channel.    *)

Processes(t) == pc = "recv" /\ queue # <<>> /\ Head(queue).type = t /\ pc' # "recv"
Handled(t) == pc = "render" /\ last_msg.type = t
Listing(d, fs) ==
    /\ {fs[i] : i \in 1..Len(fs)} = {n \in Names : d[n] # 0}
    /\ Len(fs) = Cardinality({n \in Names : d[n] # 0})
    /\ \A i, j \in 1..Len(fs) : i < j => fs[i] < fs[j]

\* C1: after every handle_char call that mutated the buffer (append, backspace
\* also on an empty buffer, Enter), the mirror file holds the buffer followed
\* by "[]" when show_cursor is set, and the buffer exactly when it is not.
C1_MirrorMatchesBuffer ==
    eib_last \in {"append", "backspace", "enter"} =>
        IF eib_show_cursor
        THEN eib_file = eib_buffer \o <<91, 93>>
        ELSE eib_file = eib_buffer

\* f, r, o, g, backspace with the cursor shown: buffer "fro", file "fro[]"
C1_Witness ==
    /\ eib_last = "backspace"
    /\ eib_show_cursor
    /\ eib_buffer = <<102, 114, 111>>
    /\ eib_file = <<102, 114, 111, 91, 93>>

\* C2: the initial mode is Refresh, and the second of two Enters processed
\* with an empty buffer returns the mode to its value before the first.
C2_TwoTogglesRestoreMode ==
    /\ [](previous_mode = "none" => mode = "Refresh")
    /\ [][(Processes("Enter") /\ input_buffer = <<>> /\ previous_mode # "none")
            => mode' = previous_mode]_vars

\* Refresh -> Insert -> Refresh
C2_Witness ==
    /\ Handled("Enter")
    /\ previous_mode = "Insert"
    /\ mode = "Refresh"
    /\ screen.mode = "Insert"

\* C3: the mode changes only in a step that processes Enter with the buffer
\* empty; every other step (Input, Backspace, Refresh, Enter with a non-empty
\* buffer, an empty poll, the threads) leaves it unchanged.
C3_ModeChangesOnlyOnEmptyEnter ==
    [][mode' # mode => (Processes("Enter") /\ input_buffer = <<>>)]_vars

\* Enter was processed with "x..." in the buffer while in Insert: still Insert
C3_Witness ==
    /\ Handled("Enter")
    /\ mode = "Insert"
    /\ screen.mode = "Insert"
    /\ screen.prompt # <<>>
    /\ input_buffer = <<>>

\* C4: processing a directory-change message in Insert mode leaves the input
\* buffer, the listing, the mode and the dirty flag as they were.
C4_InsertIgnoresRefresh ==
    [][(Processes("Refresh") /\ mode = "Insert")
        => UNCHANGED <<input_buffer, files, mode, force_refresh>>]_vars

\* a change of the directory was announced in Insert mode, with text typed
C4_Witness ==
    /\ Handled("Refresh")
    /\ mode = "Insert"
    /\ input_buffer # <<>>
    /\ ~Listing(disk, files)
    /\ ~force_refresh

\* C5 as stated: every directory-change message processed in Refresh mode
\* with a non-empty buffer empties the buffer, replaces the listing by a
\* fresh scan and sets the dirty flag.
C5_Original ==
    [][(Processes("Refresh") /\ mode = "Refresh" /\ input_buffer # <<>>)
        => (input_buffer' = <<>> /\ Listing(disk', files') /\ force_refresh')]_vars

\* C5 amended: that happens when the fingerprint computed for the message
\* differs from the stored one; when it is equal, the buffer, the listing,
\* the stored fingerprint and the dirty flag stay as they were.
C5_RefreshClearsOnlyOnNewHash ==
    [][(Processes("Refresh") /\ mode = "Refresh" /\ input_buffer # <<>>)
        => IF CalculateDirectoryHash(disk) # last_hash
           THEN /\ input_buffer' = <<>>
                /\ Listing(disk', files')
                /\ last_hash' = CalculateDirectoryHash(disk)
                /\ force_refresh'
           ELSE UNCHANGED <<input_buffer, files, last_hash, force_refresh>>]_vars

\* typed text was discarded by a change processed in Refresh mode
C5_Witness ==
    /\ Handled("Refresh")
    /\ mode = "Refresh"
    /\ screen.prompt # <<>>
    /\ input_buffer = <<>>
    /\ force_refresh
    /\ files # screen.files

\* C6: the Enter that toggles Insert -> Refresh replaces the listing by the
\* sorted listing of the directory and stores the directory's fingerprint,
\* whatever the stored fingerprint and whatever the watcher has seen; the
\* Enter that toggles Refresh -> Insert rescans nothing.
C6_LeavingInsertRescans ==
    [][(Processes("Enter") /\ input_buffer = <<>>)
        => IF mode = "Insert"
           THEN Listing(disk, files') /\ last_hash' = CalculateDirectoryHash(disk')
           ELSE UNCHANGED <<files, last_hash, disk>>]_vars

\* back in Refresh with a listing the watcher has not announced yet
C6_Witness ==
    /\ Handled("Enter")
    /\ previous_mode = "Insert"
    /\ mode = "Refresh"
    /\ files # screen.files
    /\ Listing(disk, files)
    /\ w_last_hash # CalculateDirectoryHash(disk)
    /\ \A i \in 1..Len(queue) : queue[i].type # "Refresh"

\* C7: every Input(c) the Controller dequeues appends c to the buffer and
\* sets the dirty flag, in either mode.
C7_InputAlwaysAppended ==
    [][Processes("Input")
        => (input_buffer' = Append(input_buffer, Head(queue).c) /\ force_refresh')]_vars

\* a second character appended in Refresh mode
C7_Witness ==
    /\ Handled("Input")
    /\ mode = "Refresh"
    /\ Len(input_buffer) = 2
    /\ input_buffer[2] = last_msg.c
    /\ force_refresh

C9_Backspace ==
    [][Processes("Backspace")
        => /\ input_buffer' = IF input_buffer = <<>> THEN <<>>
                              ELSE [i \in 1..(Len(input_buffer) - 1) |-> input_buffer[i]]
           /\ mode' = mode
           /\ files' = files
           /\ force_refresh']_vars

\* "ex" then Backspace: "e"
C9_Witness ==
    /\ Handled("Backspace")
    /\ screen.prompt = <<101, 120>>
    /\ input_buffer = <<101>>
    /\ force_refresh

\* C10: the step that dequeues Quit leaves the loop; from then on no message
\* is dequeued or applied, nothing is rendered, and main returns only with
\* the screen cleared.
C10_QuitLeavesLoop ==
    [][/\ Processes("Quit") => (pc' = "cleanup" /\ UNCHANGED <<mode, input_buffer, files>>)
       /\ pc \in {"cleanup", "done"} =>
            /\ pc' \in {"cleanup", "done"}
            /\ UNCHANGED <<mode, input_buffer, files, last_hash, force_refresh, last_msg>>
            /\ Len(queue') >= Len(queue)
            /\ SubSeq(queue', 1, Len(queue)) = queue
            /\ screen' = IF pc' = "done" THEN Blank ELSE screen]_vars

\* main has returned after Quit, a later message still in the channel
C10_Witness ==
    /\ pc = "done"
    /\ last_msg.type = "Quit"
    /\ queue # <<>>
    /\ screen = Blank

\* C19: every byte 0..255 the input thread reads is turned into exactly one
\* message, queued behind those already waiting: Enter for 10 and 13,
\* Backspace for 8 and 127, Quit for 'q' (113), Input(the byte as char) for
\* every other byte.
C19_OneMessagePerByte ==
    [][stdin' # stdin =>
         /\ stdin # <<>>
         /\ stdin' = Tail(stdin)
         /\ Running =>
              queue' = Append(queue,
                 LET b == Head(stdin)
                 IN  IF b \in {10, 13} THEN [type |-> "Enter", c |-> 0]
                     ELSE IF b \in {8, 127} THEN [type |-> "Backspace", c |-> 0]
                     ELSE IF b = 113 THEN [type |-> "Quit", c |-> 0]
                     ELSE [type |-> "Input", c |-> b])]_vars

\* the byte 255 (not ASCII) was typed and sent as Input, to be received next
C19_Witness ==
    /\ stdin = <<>>
    /\ Running
    /\ queue # <<>>
    /\ Head(queue) = [type |-> "Input", c |-> 255]

\* C17: on each tick of the watcher thread (its hash computed), it sends one
\* Refresh message if and only if the hash differs from the one the thread
\* stored, and then stores the new hash; a tick on an unchanged directory
\* sends nothing and stores nothing; no other step sends Refresh or touches
\* the watcher's stored hash.
C17_WatcherSendsIffHashDiffers ==
    [][IF w_pc = "tick" /\ w_pc' # "tick"
       THEN IF CalculateDirectoryHash(disk) # w_last_hash
            THEN /\ w_last_hash' = CalculateDirectoryHash(disk)
                 /\ Running => queue' = Append(queue, [type |-> "Refresh", c |-> 0])
            ELSE UNCHANGED <<queue, w_last_hash>>
       ELSE /\ w_last_hash' = w_last_hash
            /\ queue' # Append(queue, [type |-> "Refresh", c |-> 0])]_vars

\* two ticks have sent: the first one (the stored hash was 0), and one after
\* the directory was modified; the thread is asleep again
C17_Witness ==
    /\ w_pc = "sleep"
    /\ mods > 0
    /\ w_last_hash = CalculateDirectoryHash(disk)
    /\ Len(SelectSeq(queue, LAMBDA m : m.type = "Refresh")) = 2

\* C18: the two threads never panic, whatever fails.  A tick of the watcher
\* either sends one Refresh and stores the hash it computed, or (the hash
\* unchanged, or its computation failed) sends nothing and leaves the stored
\* hash as it was, and the thread sleeps again.  At the end of stdin the
\* input thread sends nothing and stays in its loop.  Once main has returned
\* (the receiver dropped) nothing is queued any more, and the threads go on.
C18_ThreadsDegrade ==
    [][/\ in_pc' = "read"
       /\ w_pc' \in {"start", "sleep", "tick"}
       /\ (w_pc = "tick" /\ w_pc' # "tick") =>
             /\ w_pc' = "sleep"
             /\ \/ UNCHANGED <<queue, w_last_hash>>
                \/ /\ w_last_hash' = CalculateDirectoryHash(disk)
                   /\ w_last_hash' # w_last_hash
                   /\ Running => queue' = Append(queue, [type |-> "Refresh", c |-> 0])
       /\ (stdin = <<>> /\ queue' # queue /\ pc' = pc) =>
             queue' = Append(queue, [type |-> "Refresh", c |-> 0])
       /\ ~Running => queue' = queue]_vars

\* a tick is over and the watcher still has no hash: calculate_directory_hash
\* failed; the input thread is at the end of stdin; both are in their loops
C18_Witness ==
    /\ io_faults
    /\ w_pc = "sleep"
    /\ w_last_hash = 0
    /\ in_pc = "read"
    /\ stdin = <<>>

\* C15: while the loop is running, each iteration receives at most one
\* message and it is the oldest one in the channel; no other step removes,
\* reorders or duplicates a queued message.  Hence the messages of the input
\* thread (those queued, then those of the bytes still to be read, in byte
\* order) are applied one by one from the front, in the order sent, and
\* every watcher message queued is applied exactly once, whatever the
\* interleaving of the two threads.
C15_PerProducerFifo ==
    [][Running =>
         LET FromInput(q) == SelectSeq(q, LAMBDA m : m.type # "Refresh")
             FromWatcher(q) == SelectSeq(q, LAMBDA m : m.type = "Refresh")
             ToCome(s) == [i \in 1 .. Len(s) |-> ClassifyByte(s[i])]
             receives == pc = "recv" /\ pc' # "recv" /\ queue # <<>>
         IN  /\ IF receives
                THEN queue' = Tail(queue) /\ last_msg' = Head(queue)
                ELSE /\ Len(queue') \in {Len(queue), Len(queue) + 1}
                     /\ SubSeq(queue', 1, Len(queue)) = queue
             /\ IF receives /\ Head(queue).type # "Refresh"
                THEN /\ last_msg' = Head(FromInput(queue) \o ToCome(stdin))
                     /\ FromInput(queue') \o ToCome(stdin')
                          = Tail(FromInput(queue) \o ToCome(stdin))
                ELSE FromInput(queue') \o ToCome(stdin') = FromInput(queue) \o ToCome(stdin)
             /\ IF receives /\ Head(queue).type = "Refresh"
                THEN FromWatcher(queue') = Tail(FromWatcher(queue))
                ELSE SubSeq(FromWatcher(queue'), 1, Len(FromWatcher(queue)))
                          = FromWatcher(queue)]_vars

\* the two producers interleaved: an Input was just applied while a watcher
\* message sent before a later key, and that key's message, are waiting
C15_Witness ==
    /\ Handled("Input")
    /\ Len(queue) >= 2
    /\ queue[1].type = "Refresh"
    /\ queue[2].type \in {"Enter", "Backspace"}

\* C16: the screen is redrawn in a loop iteration only when the dirty flag
\* (force_refresh) is set, and an iteration sets the flag only when it
\* changed the mode, the input buffer or the directory listing.
C16_RedrawOnlyOnChange ==
    [][/\ (pc = "render" /\ screen' # screen) => force_refresh
       /\ (pc = "recv" /\ force_refresh') =>
             <<mode', input_buffer', files'>> # <<mode, input_buffer, files>>]_vars

\* C20: a handle_char call that reads the byte b returns true exactly when b
\* is 10 or 13, and the buffer is empty then; for 8 and 127 it drops the
\* last character (if any); for a graphic byte (33..126) or space it appends
\* the byte; for any other byte, and when the read fails, the buffer and
\* the mirror file stay as they were; all but Enter return false.
C20_HandleCharPerByte ==
    [][IF eib_stdin # <<>>
       THEN LET b == Head(eib_stdin)
            IN  /\ eib_stdin' = Tail(eib_stdin)
                /\ (eib_ret' = "Ok_true") = (b \in {10, 13})
                /\ (eib_ret' = "Ok_false") = (b \notin {10, 13})
                /\ IF b \in {10, 13} THEN eib_buffer' = <<>>
                   ELSE IF b \in {8, 127}
                        THEN \/ eib_buffer = <<>> /\ eib_buffer' = <<>>
                             \/ eib_buffer # <<>> /\ eib_buffer = Append(eib_buffer', eib_buffer[Len(eib_buffer)])
                   ELSE IF (33 <= b /\ b <= 126) \/ b = 32
                        THEN eib_buffer' = Append(eib_buffer, b)
                   ELSE UNCHANGED <<eib_buffer, eib_file>>
       ELSE /\ eib_ret' = "Ok_false"
            /\ UNCHANGED <<eib_buffer, eib_file>>]_vars

\* 'a' was typed, then a byte that is neither a key nor graphic was read and
\* ignored: buffer and mirror file still hold the 'a'
C20_Witness ==
    /\ eib_last = "ignored"
    /\ eib_ret = "Ok_false"
    /\ eib_stdin = <<>>
    /\ eib_buffer = <<97>>
    /\ eib_file \in {<<97>>, <<97, 91, 93>>}

(* s.contains(sub) *)
Contains(s, sub) ==
    \E i \in 0 .. (Len(s) - Len(sub)) : SubSeq(s, i + 1, i + Len(sub)) = sub

\* C11: when process_completed_input has returned to its caller, the line
\* passed (trimmed and lower-cased) being "help", the info-bar file contains
\* "Available Commands"; being "clear", the file-view file is empty; being
\* none of exit, quit, clear, help or empty, the info-bar file contains
\* "Unrecognized command"; and only exit and quit end the process: every
\* other line returns Ok to the caller.
C11_CommandDispatch ==
    /\ tpt_pc = "called" =>
          /\ tpt_line \in HelpLines =>
                Contains(tpt_info, <<65, 118, 97, 105, 108, 97, 98, 108, 101, 32, 67, 111, 109, 109, 97, 110, 100, 115>>)
          /\ tpt_line \in ClearLines => tpt_view = <<>>
          /\ tpt_line \in OtherLines =>
                Contains(tpt_info, <<85, 110, 114, 101, 99, 111, 103, 110, 105, 122, 101, 100, 32, 99, 111, 109, 109, 97, 110, 100>>)
          /\ tpt_line \notin QuitLines
    /\ tpt_pc \in {"exited", "failed"} => tpt_line \in QuitLines

\* " HELP " was passed and the call has returned
C11_Witness ==
    /\ tpt_pc = "called"
    /\ tpt_line = <<32, 72, 69, 76, 80, 32>>
    /\ tpt_last = "help"
    /\ tpt_view # <<>>

\* C12: in the run loop, when handle_char reads Enter after a line was
\* typed, the command handler is called with the text typed before Enter:
\* after "exit" or "quit" the process ends, after the unknown word "x" the
\* info bar reports it as unrecognized.
C12_TypedCommandsDispatched ==
    [][(tpt_pc = "run" /\ eib_stdin # <<>> /\ eib_stdin' = Tail(eib_stdin)
          /\ Head(eib_stdin) \in {10, 13}) =>
         /\ tpt_line' = eib_buffer
         /\ eib_buffer \in {Str_exit, Str_quit} => tpt_pc' = "exited"
         /\ eib_buffer = <<120>> =>
               Contains(tpt_info', <<85, 110, 114, 101, 99, 111, 103, 110, 105, 122, 101, 100, 32, 99, 111, 109, 109, 97, 110, 100, 58, 32, 39, 120, 39>>)]_vars

\* C13: ThreePartTui::new leaves tui_temp holding nothing of an earlier run
\* and the three mirror files empty; and once the program has shut down,
\* by the exit/quit command or by the value going out of scope, tui_temp no
\* longer exists.
C13_TempDirLifecycle ==
    [][/\ (tpt_pc = "new" /\ tpt_pc' = "ready") =>
             /\ tpt_temp' /\ ~tpt_stale'
             /\ tpt_view' = <<>> /\ tpt_info' = <<>> /\ eib_file' = <<>>
       /\ tpt_pc' \in {"exited", "dropped"} => ~tpt_temp']_vars

\* C14: when an iteration of the display loop reads file_view.txt while the
\* file-view thread is between File::create and write_all, what
\* needs_refresh measures and display_all prints is the complete previous
\* content (last_content) or the complete new one (current_content).
C14_NoTornReads ==
    [][(tpt_pc = "run" /\ tpt_pc' = "run" /\ fv_pc = "write" /\ fv_pc' = "write"
          /\ disk' = disk) =>
         /\ tpt_lens'[1] \in {Len(fv_last), Len(fv_cur)}
         /\ tpt_shown' # tpt_shown => tpt_shown'.view \in {fv_last, fv_cur}]_vars

\* C28: whenever main is at the poll of the channel (try_recv), the dirty
\* flag force_refresh is false; so the guard of the Input arm,
\* mode == Insert || !force_refresh, is true for every character received.
C28_FlagClearAtPoll ==
    /\ pc = "recv" => ~force_refresh
    /\ (pc = "recv" /\ queue # <<>> /\ Head(queue).type = "Input") =>
          (mode = "Insert" \/ ~force_refresh)

\* back at the poll in Refresh mode after a frame with a typed character
\* was drawn, the next character waiting
C28_Witness ==
    /\ pc = "recv"
    /\ mode = "Refresh"
    /\ screen.prompt # <<>>
    /\ input_buffer = screen.prompt
    /\ queue # <<>>
    /\ Head(queue).type = "Input"

\* C29: with the input thread classifying every byte, the input buffer never
\* holds the character 'q'; so an Enter never finds the buffer equal to "q"
\* or "quit", and the loop is left only by a Quit message (towards the
\* cleanup) or by the I/O error of a rescan.
C29_NoQInBuffer ==
    /\ \A i \in 1 .. Len(input_buffer) : input_buffer[i] # Key_q
    /\ ~(Received("Enter") /\ IsQuitCommand(input_buffer))
    /\ pc \in {"cleanup", "done"} => last_msg.type = "Quit"
    /\ pc = "failed" => (io_faults /\ last_msg.type \in {"Enter", "Refresh"})

\* 'x' was typed into the buffer, then 'q': the loop was left by the Quit
\* message with the buffer holding only the 'x'
C29_Witness ==
    /\ pc = "cleanup"
    /\ last_msg.type = "Quit"
    /\ input_buffer = <<120>>
    /\ stdin # <<>>

C23_NoStaleReplay ==
    [][(mods' = mods /\ disk' = disk) =>
         /\ (Processes("Enter") /\ input_buffer = <<>> /\ mode = "Insert")
               => /\ mode' = "Refresh" /\ previous_mode' = "Insert"
                  /\ Listing(disk', files')
                  /\ last_hash' = CalculateDirectoryHash(disk')
         /\ (mode = "Refresh" /\ mode' = "Refresh" /\ previous_mode = "Insert"
                /\ last_hash = CalculateDirectoryHash(disk))
               => /\ last_hash' = last_hash
                  /\ (Processes("Refresh") =>
                        (input_buffer' = input_buffer /\ force_refresh' = force_refresh))]_vars

\* the directory was modified, the mode went to Insert and back, a character
\* was typed, and the watcher's message for the modification was processed
\* with the character kept
C23_Witness ==
    /\ Handled("Refresh")
    /\ mode = "Refresh"
    /\ previous_mode = "Insert"
    /\ mods = 1
    /\ Listing(disk, files)
    /\ files # ScanDirectory(InitDir)
    /\ w_last_hash = CalculateDirectoryHash(disk)
    /\ input_buffer # <<>>
    /\ stdin = <<>>

\* C22: a rescan failure in the Refresh arm or in the Enter arm that leaves
\* Insert mode ends the loop: no later message is processed, nothing is
\* retried, and the shutdown is clean, the terminal being cleared as it is
\* after a Quit.
C22_RescanFailureShutsDownClean ==
    /\ pc = "failed" => (last_msg.type \in {"Enter", "Refresh"} /\ screen = Blank)
    /\ pc = "done" => screen = Blank

\* C30: in Refresh mode the listing held by the Controller comes to equal
\* the sorted listing of the directory once the modifications stop, also
\* when one of them fell between the scan and the hash of a rescan;
\* equivalently, whenever the stored fingerprint is the directory's
\* fingerprint, the stored listing is the directory's listing.
C30_ListingMatchesDisk ==
    (mode = "Refresh" /\ Running /\ last_hash = CalculateDirectoryHash(disk))
        => Listing(disk, files)

\* C21: when the write of the mirror file fails in new or in a handle_char
\* call that changes the buffer, the call returns the error: a mirror file
\* that is not the text to be written goes with the result Err, and it is as
\* the one failed write left it (as it was, or a proper part of the text),
\* nothing having been written again, by that call or by a later one; a new
\* that did not empty the file returned Err.
C21_WriteFailurePropagates ==
    [][/\ (eib_stdin' # eib_stdin /\ eib_last' \in {"enter", "backspace", "append"}
            /\ eib_file' # FileContent(eib_buffer', eib_show_cursor))
          => /\ eib_ret' = "Err"
             /\ \/ eib_file' = eib_file
                \/ \E k \in 0 .. Len(FileContent(eib_buffer', eib_show_cursor)) - 1 :
                      eib_file' = SubSeq(FileContent(eib_buffer', eib_show_cursor), 1, k)
       /\ eib_ret = "Err" => UNCHANGED eibVars]_vars
    /\ []((eib_last = "none" /\ eib_file # <<>>) => eib_ret = "Err")

\* an append whose write stopped part-way: Err, the file short of the buffer
C21_Witness ==
    /\ eib_ret = "Err"
    /\ eib_last = "append"
    /\ eib_file # FileContent(eib_buffer, eib_show_cursor)
    /\ eib_file # <<>>
    /\ eib_stdin # <<>>

\* C25: every pass of run's loop leaves on the screen the content that the
\* three mirror files have at its needs_refresh call: needs_refresh is true,
\* and display_all follows, whenever one of them differs from what it was at
\* the previous call.
C25_ChangeDetected ==
    [][(tpt_pc = "run" /\ tpt_pc' = "run" /\ UNCHANGED <<fv_pc, fv_last, fv_cur, disk, mods>>)
        => tpt_shown' = [view |-> tpt_view', info |-> tpt_info', input |-> eib_file']]_vars

RECURSIVE RecordsJoined(_, _)
RecordsJoined(body, cur) ==
    LET done == IF cur = <<>> THEN <<>> ELSE <<Join(cur)>>
    IN  IF body = <<>> THEN done
        ELSE IF IsNewRecord(Head(body))
        THEN done \o RecordsJoined(Tail(body), <<Head(body)>>)
        ELSE RecordsJoined(Tail(body), Append(cur, Head(body)))

\* C24: for an input that is a header line followed by records, each
\* starting with a line whose first field parses as an unsigned integer,
\* the output of clean_csv_file is the header followed by one line per
\* record, in order, the record's lines joined by single spaces.
C24_EachRecordOneLine ==
    (/\ csv_pc = "done"
     /\ csv_input # <<>>
     /\ Len(csv_input) >= 2 => IsNewRecord(csv_input[2]))
        => csv_out = <<csv_input[1]>> \o RecordsJoined(Tail(csv_input), <<>>)

====
